---- MODULE Spec2Model ----
(***************************************************************************)
(* A model of src/main.py, the job portal scraper: the extractors          *)
(* (scrape_jobs), the orchestrator (scrape_all_portals, run_daily_scrape), *)
(* the dedup store (insert_job on job_listings) and the fingerprint        *)
(* (generate_hash_id).                                                     *)
(*                                                                         *)
(* A Python str is a sequence of one-character strings, so that            *)
(* concatenation and digests are computed, not assumed.  An Optional       *)
(* value is a sequence of length 0 (None) or 1.                            *)
(***************************************************************************)
EXTENDS Integers, Sequences, FiniteSets, Bags, TLC

VARIABLES
    pc,             \* where the main thread is in run_daily_scrape / scrape_all_portals
    cycle,          \* number of run_daily_scrape calls started so far
    future,         \* per scraper: the task submitted to the ThreadPoolExecutor
    fetched,        \* per scraper: the get_page_content calls of the task and their results
    collected,      \* scrapers whose future the as_completed loop has consumed
    all_jobs,       \* scrape_all_portals' local all_jobs
    idx,            \* number of records the persistence loop has passed to insert_job
    rows,           \* the committed rows of table job_listings, in id order
    new_jobs_today, \* JobPortalScraper.new_jobs_today
    calls,          \* the last two insert_job calls of this scrape: job, error, result
    outcome,        \* how the last run_daily_scrape ended: "none", "ok" or "error"
    setup,          \* how JobPortalScraper() ended, and whether the notifier has credentials
    report,         \* this cycle's send_daily_report call: how it ended, and its new_jobs
    accepted,       \* the records whose insert_job returned True in this scrape
    hcalls,         \* generate_hash_id calls made (specification SpecHash)
    probe           \* calls of one of the other pure functions, with their results

\* The variables of the specifications of the pure functions.
pureVars == <<hcalls, probe>>

vars == <<pc, cycle, future, fetched, collected, all_jobs, idx, rows,
          new_jobs_today, calls, outcome, setup, report, accepted,
          hcalls, probe>>

pipeVars == <<pc, cycle, future, fetched, collected, all_jobs, idx, rows,
              new_jobs_today, calls, outcome, setup, report, accepted>>

----------------------------------------------------------------------------
(* Bounds *)

\* pages per source in one scrape (run_daily_scrape passes max_pages=5)
MaxPages == 2

\* run_daily_scrape cycles (schedule_scraping repeats it daily, for ever)
MaxCycles == 2

\* longest title, company or location generate_hash_id is applied to in SpecHash
MaxLen == 1

\* longest text clean_text is applied to in SpecText
MaxText == 4

----------------------------------------------------------------------------
(* Strings and the digest *)

\* The characters strings are made of; a character's code is its place here.
Alphabet == <<"a", "b", " ", "\t", "N", "/", "A">>

CharCode(c) == CHOOSE i \in 1..Len(Alphabet) : Alphabet[i] = c

\* The characters generate_hash_id's inputs are drawn from in SpecHash.
Chars == {"a", "b"}

RECURSIVE StrUpTo(_)
StrUpTo(n) ==
    IF n = 0 THEN {<<>>}
    ELSE LET S == StrUpTo(n - 1)
         IN  S \cup {Append(s, c) : s \in {t \in S : Len(t) = n - 1}, c \in Chars}

\* hashlib.md5(s.encode()).hexdigest(), the digest taken to be injective on the
\* string it is given: the bijective base-|Alphabet| numeral the string spells.
MD5(s) ==
    LET digest[i \in 0..Len(s)] ==
            IF i = 0 THEN 0 ELSE digest[i - 1] * Len(Alphabet) + CharCode(s[i])
    IN  digest[Len(s)]

\* A mutant: the url is hashed too.
generate_hash_id_url(self, job_data) ==
    MD5(job_data.title \o job_data.company \o job_data.location \o job_data.url)

\* WebScraper.generate_hash_id: md5 of f"{title}{company}{location}".
generate_hash_id(self, job_data) ==
    MD5(job_data.title \o job_data.company \o job_data.location)

IsSpace(c) == c \in {" ", "\t"}

RECURSIVE lstrip(_)
lstrip(s) == IF s # <<>> /\ IsSpace(s[1]) THEN lstrip(Tail(s)) ELSE s

RECURSIVE rstrip(_)
rstrip(s) ==
    IF s # <<>> /\ IsSpace(s[Len(s)]) THEN rstrip(SubSeq(s, 1, Len(s) - 1)) ELSE s

\* re.sub(r'\s+', ' ', s): every maximal run of whitespace becomes one space.
RECURSIVE CollapseSpace(_)
CollapseSpace(s) ==
    IF s = <<>> THEN <<>>
    ELSE IF IsSpace(s[1]) THEN <<" ">> \o CollapseSpace(lstrip(s))
    ELSE <<s[1]>> \o CollapseSpace(Tail(s))

\* re.sub(r'\s', ' ', s): each whitespace character replaced alone.
RECURSIVE ReplaceEachSpace(_)
ReplaceEachSpace(s) ==
    IF s = <<>> THEN <<>>
    ELSE <<IF IsSpace(s[1]) THEN " " ELSE s[1]>> \o ReplaceEachSpace(Tail(s))

\* A mutant: runs of whitespace are not collapsed.
clean_text_each(text) ==
    IF text = <<>> THEN <<>> ELSE ReplaceEachSpace(rstrip(lstrip(text)))

\* WebScraper.clean_text
clean_text(text) == IF text = <<>> THEN <<>> ELSE CollapseSpace(rstrip(lstrip(text)))

\* clean_text called with an Optional[str]: None is <<>>, a str s is <<s>>;
\* "not text" holds of None as it does of "".
CleanTextOf(opt) == IF opt = <<>> THEN <<>> ELSE clean_text(opt[1])

----------------------------------------------------------------------------
(* The scrapers and what they extract *)

\* JobPortalScraper.scrapers
Scrapers == {"bdjobs", "jobscom"}

NA == <<"N", "/", "A">>

base_url(self) == <<"/">>

\* A job_element of a fetched page: the text of the tags extract_job_data looks
\* for (an absent tag is <<>>, a present one <<text>>), and whether reading
\* the element raises.
Element(title, company, location, href, malformed) ==
    [title |-> title, company |-> company, location |-> location,
     href |-> href, malformed |-> malformed]

E1 == Element(<< <<"a">> >>, << <<"b">> >>, << <<"a">> >>, << <<"a">> >>, FALSE)
\* the same job listed again under another link, its title padded
E2 == Element(<< <<" ", "a">> >>, << <<"b">> >>, << <<"a">> >>, << <<"b">> >>, FALSE)
\* another job, with no company tag
E3 == Element(<< <<"b">> >>, <<>>, << <<"a", "\t">> >>, << <<"a">> >>, FALSE)
EBad == Element(<<>>, <<>>, <<>>, <<>>, TRUE)

\* What a successful fetch of one page can hold, per portal.
PageContents(self) ==
    IF self = "bdjobs" THEN {<<E1, EBad, E2>>, <<E3>>} ELSE {<<E1>>}

\* get_page_content's results: None (ok = FALSE) or the page's job elements.
FetchResults(self) ==
    {[ok |-> FALSE, elems |-> <<>>]} \cup
    {[ok |-> TRUE, elems |-> c] : c \in PageContents(self)}

SourceName(self) == IF self = "bdjobs" THEN "Bdjobs" ELSE "Jobs.com.bd"

\* The body of BdjobsScraper.extract_job_data's try block: the job_data dict
\* with its hash_id.  (requirements, posted_date, deadline, job_type and
\* experience are constants of the code and are left out.)
BdjobsJobData(self, el) ==
    LET job_data ==
            [title       |-> IF el.title # <<>> THEN clean_text(el.title[1]) ELSE NA,
             company     |-> IF el.company # <<>> THEN clean_text(el.company[1]) ELSE NA,
             location    |-> IF el.location # <<>> THEN clean_text(el.location[1]) ELSE NA,
             salary      |-> NA,
             description |-> NA,
             url         |-> IF el.href # <<>> THEN base_url(self) \o el.href[1] ELSE <<>>,
             source      |-> SourceName(self)]
    IN  [hash_id |-> generate_hash_id(self, job_data)] @@ job_data

\* extract_job_data: Optional[JobListing].  BdjobsScraper catches what its body
\* raises and returns None; JobscomScraper's is a stub whose body is `pass`.
extract_job_data(self, el) ==
    IF self = "bdjobs"
    THEN IF el.malformed THEN <<>> ELSE <<BdjobsJobData(self, el)>>
    ELSE <<>>

\* A mutant: the first candidate that yields nothing ends the page.
RECURSIVE ExtractUntilFailure(_, _)
ExtractUntilFailure(self, elems) ==
    IF elems = <<>> \/ extract_job_data(self, elems[1]) = <<>> THEN <<>>
    ELSE extract_job_data(self, elems[1]) \o ExtractUntilFailure(self, Tail(elems))

\* scrape_jobs' loop over job_elements: the records appended to jobs.
RECURSIVE ExtractAll(_, _)
ExtractAll(self, elems) ==
    IF elems = <<>> THEN <<>>
    ELSE extract_job_data(self, elems[1]) \o ExtractAll(self, Tail(elems))

----------------------------------------------------------------------------
(* The dedup store: table job_listings and insert_job *)

\* A mutant: the table has no UNIQUE constraint on hash_id.
ConflictsNever(table, job) == FALSE

\* hash_id VARCHAR(64) UNIQUE NOT NULL: the row the engine refuses to duplicate.
Conflicts(table, job) == \E i \in 1..Len(table) : table[i].hash_id = job.hash_id

\* A mutant: REPLACE INTO, the conflicting row deleted and the new one stored.
InsertReplace(table, job) ==
    SelectSeq(table, LAMBDA r : r.hash_id # job.hash_id) \o <<job>>

\* INSERT IGNORE INTO job_listings ... / ON CONFLICT (hash_id) DO NOTHING
InsertIgnore(table, job) ==
    IF Conflicts(table, job) THEN table ELSE Append(table, job)

\* Where a storage error strikes one insert_job call: nowhere; at
\* connection.cursor(), before the try block; at cursor.execute or at
\* connection.commit, rolled back by the handler; or the connection is lost at
\* cursor.execute, so that the handler's connection.rollback() raises too.
Faults == {"none", "cursor", "execute", "commit", "lost"}

\* A mutant: the return value is whether the call went through, not rowcount.
insert_job_always_true(table, job, fault) ==
    CASE fault = "none" -> [rows |-> InsertIgnore(table, job), ret |-> "True"]
      [] fault \in {"execute", "commit"} -> [rows |-> table, ret |-> "False"]
      [] OTHER -> [rows |-> table, ret |-> "raised"]

\* DatabaseManager.insert_job: the committed rows after the call, and what the
\* caller gets: "True", "False", or "raised" when an exception leaves the call.
insert_job(table, job, fault) ==
    CASE fault = "none" ->
            \* execute, commit, return cursor.rowcount > 0
            LET after == InsertIgnore(table, job)
            IN  [rows |-> after,
                 ret  |-> IF Len(after) - Len(table) > 0 THEN "True" ELSE "False"]
      [] fault \in {"execute", "commit"} ->
            \* except Exception: rollback, return False
            [rows |-> table, ret |-> "False"]
      [] OTHER ->
            \* "cursor": raised outside the try; "lost": raised by the handler
            [rows |-> table, ret |-> "raised"]

----------------------------------------------------------------------------
(* The extractor tasks: scrape_jobs *)

\* A task not running: nothing of scrape_jobs' frame is left.
Ended(state, jobs) ==
    [state |-> state, page |-> 0, step |-> "none", soup |-> <<>>, jobs |-> jobs,
     slept |-> FALSE]

\* scrape_jobs entered: jobs = [], page 1 of range(1, max_pages + 1) next.
\* slept tells whether the task has been in time.sleep since its last
\* request was sent.
Started == [state |-> "running", page |-> 1, step |-> "fetch", soup |-> <<>>,
            jobs |-> <<>>, slept |-> FALSE]

\* The for loop's next iteration, or `return jobs` once the range is used up.
NextPage(f) ==
    IF f.page + 1 > MaxPages THEN Ended("returned", f.jobs)
    ELSE [f EXCEPT !.page = f.page + 1, !.step = "fetch", !.soup = <<>>]

\* A mutant: a failed fetch ends the scrape with what it has.
AfterFetchFailureBreak(f) == Ended("returned", f.jobs)

\* A mutant: a failed fetch is tried again.
AfterFetchFailureRetry(f) == [f EXCEPT !.step = "fetch"]

\* `if not soup: continue`
AfterFetchFailure(f) == NextPage(f)

\* The page number the url passed to get_page_content names, 0 if it names
\* none: JobscomScraper fetches f"{search_url}?page={page}"; BdjobsScraper
\* puts the page in params, which it does not use, and fetches search_url.
RequestedPage(self, page) == IF self = "jobscom" THEN page ELSE 0

\* use_selenium of the get_page_content call
UsesSelenium(self) == self = "bdjobs"

\* Whether get_page_content has slept when it returns r: with Selenium it
\* sleeps once driver.get(url) has returned; a failed fetch is one that
\* raised in driver.get or in session.get.
SleptInFetch(self, r) == UsesSelenium(self) /\ r.ok

\* soup = self.get_page_content(...) for the page the loop is at.
GetPageContent(self) ==
    /\ future[self].state = "running"
    /\ future[self].step = "fetch"
    /\ \E r \in FetchResults(self) :
        /\ fetched' = [fetched EXCEPT ![self] =
                         Append(@, [ok |-> r.ok, elems |-> r.elems,
                                    page |-> future[self].page,
                                    request |-> RequestedPage(self, future[self].page)])]
        /\ future' = [future EXCEPT ![self] =
                        IF r.ok THEN [@ EXCEPT !.step = "extract", !.soup = r.elems,
                                               !.slept = SleptInFetch(self, r)]
                        ELSE AfterFetchFailure([@ EXCEPT !.slept = SleptInFetch(self, r)])]
    /\ UNCHANGED <<pc, cycle, collected, all_jobs, idx, rows, new_jobs_today,
                   calls, outcome, setup, report, accepted,
                   pureVars>>

\* job_elements = soup.find_all(...); the loop over them.
ExtractPage(self) ==
    /\ future[self].state = "running"
    /\ future[self].step = "extract"
    /\ future' = [future EXCEPT ![self] =
                    [@ EXCEPT !.step = "delay", !.soup = <<>>,
                              !.jobs = @ \o ExtractAll(self, future[self].soup)]]
    /\ UNCHANGED <<pc, cycle, fetched, collected, all_jobs, idx, rows,
                   new_jobs_today, calls, outcome, setup, report, accepted,
                   pureVars>>

\* time.sleep(random.uniform(...)) at the end of the loop body.
Delay(self) ==
    /\ future[self].state = "running"
    /\ future[self].step = "delay"
    /\ future' = [future EXCEPT ![self] = NextPage([@ EXCEPT !.slept = TRUE])]
    /\ UNCHANGED <<pc, cycle, fetched, collected, all_jobs, idx, rows,
                   new_jobs_today, calls, outcome, setup, report, accepted,
                   pureVars>>

\* The task ends with an exception: what future.result() re-raises in the
\* orchestrator's `except Exception` (the two scrapers registered here catch
\* Exception themselves; a registered extractor need not).
TaskRaise(self) ==
    /\ future[self].state = "running"
    /\ future' = [future EXCEPT ![self] = Ended("raised", <<>>)]
    /\ fetched' = [fetched EXCEPT ![self] = <<>>]
    /\ UNCHANGED <<pc, cycle, collected, all_jobs, idx, rows, new_jobs_today,
                   calls, outcome, setup, report, accepted,
                   pureVars>>

----------------------------------------------------------------------------
(* The orchestrator: run_daily_scrape and scrape_all_portals *)

\* No send_daily_report call in this cycle.
NoReport == [status |-> "none", new_jobs |-> <<>>]

\* main() entered, JobPortalScraper not constructed yet.
Init ==
    /\ pc = "start"
    /\ cycle = 0
    /\ future = [s \in Scrapers |-> Ended("none", <<>>)]
    /\ fetched = [s \in Scrapers |-> <<>>]
    /\ collected = {}
    /\ all_jobs = <<>>
    /\ idx = 0
    /\ rows = <<>>
    /\ new_jobs_today = <<>>
    /\ calls = <<>>
    /\ outcome = "none"
    /\ setup = [result |-> "pending", credentials |-> FALSE]
    /\ report = NoReport
    /\ accepted = <<>>
    /\ hcalls = <<>>
    /\ probe = <<>>

\* How JobPortalScraper() can end: "ok", or with the exception of
\* DatabaseManager.connect, of create_tables, or of setup_selenium in the
\* constructor of one of the two scrapers.
SetupResults == {"ok", "connect", "create_tables", "selenium_bdjobs", "selenium_jobscom"}

\* A mutant: main goes on to run_daily_scrape whatever the constructor did.
AfterSetupGoOn(result) == "idle"

\* main after `scraper = JobPortalScraper(...)`: run_daily_scrape is next, or
\* the exception is logged in `except Exception` and main ends (there is no
\* scraper to close).
AfterSetup(result) == IF result = "ok" THEN "idle" ELSE "terminated"

\* scraper = JobPortalScraper(db_type='mysql'); EmailNotifier() reads the
\* credentials from the environment.
Construct ==
    /\ pc = "start"
    /\ \E result \in SetupResults, credentials \in BOOLEAN :
        /\ setup' = [result |-> result,
                     credentials |-> IF result = "ok" THEN credentials ELSE FALSE]
        /\ pc' = AfterSetup(result)
    /\ UNCHANGED <<cycle, future, fetched, collected, all_jobs, idx, rows,
                   new_jobs_today, calls, outcome, report, accepted,
                   pureVars>>

\* run_daily_scrape calls scrape_all_portals: all_jobs = [], and one
\* scrape_jobs task per scraper is submitted to the pool of two workers.
RunDailyScrape ==
    /\ pc = "idle"
    /\ cycle < MaxCycles
    /\ pc' = "pool"
    /\ cycle' = cycle + 1
    /\ future' = [s \in Scrapers |-> Started]
    /\ fetched' = [s \in Scrapers |-> <<>>]
    /\ collected' = {}
    /\ all_jobs' = <<>>
    /\ idx' = 0
    /\ calls' = <<>>
    /\ outcome' = "none"
    /\ report' = NoReport
    /\ accepted' = <<>>
    /\ UNCHANGED <<rows, new_jobs_today, setup, pureVars>>

\* A mutant: an exception of future.result() is not caught; it leaves
\* scrape_all_portals.
OnFuturePropagate(all, f) ==
    IF f.state = "returned"
    THEN [all_jobs |-> all \o f.jobs, pc |-> "pool"]
    ELSE [all_jobs |-> all, pc |-> "idle"]

\* The body of the as_completed loop: future.result() extends all_jobs, or
\* raises into `except Exception`, which logs; either way the loop goes on.
OnFuture(all, f) ==
    IF f.state = "returned"
    THEN [all_jobs |-> all \o f.jobs, pc |-> "pool"]
    ELSE [all_jobs |-> all, pc |-> "pool"]

\* A mutant: only a future that holds a result is handed over.
DoneWithResult(f) == f.state = "returned"

\* The futures as_completed yields: those whose task has ended, by
\* returning or by raising.
Done(f) == f.state \in {"returned", "raised"}

\* One iteration of `for future in as_completed(future_to_scraper)`, for a
\* future that is done.
Collect(self) ==
    /\ pc = "pool"
    /\ self \notin collected
    /\ Done(future[self])
    /\ collected' = collected \cup {self}
    /\ all_jobs' = OnFuture(all_jobs, future[self]).all_jobs
    /\ pc' = OnFuture(all_jobs, future[self]).pc
    /\ fetched' = [fetched EXCEPT ![self] = <<>>]
    /\ UNCHANGED <<cycle, future, idx, rows, new_jobs_today, calls, outcome,
                   setup, report, accepted,
                   pureVars>>

\* A mutant: the pool is left once any future has been consumed.
PoolJoinedAny == collected # {}

\* as_completed is used up, and the with block's exit has joined the workers.
PoolJoined == \A s \in Scrapers : s \in collected

\* The with block is left; the persistence loop begins.
ExitPool ==
    /\ pc = "pool"
    /\ PoolJoined
    /\ pc' = "persist"
    /\ UNCHANGED <<cycle, future, fetched, collected, all_jobs, idx, rows,
                   new_jobs_today, calls, outcome, setup, report, accepted,
                   pureVars>>

\* The last two insert_job calls of this scrape.
Logged(log, call) == IF Len(log) < 2 THEN Append(log, call) ELSE <<log[2], call>>

\* A mutant: every record passed to insert_job is appended.
NewJobsTodayAll(today, job, ret) ==
    IF ret # "raised" THEN Append(today, job) ELSE today

\* `if self.db.insert_job(job): self.new_jobs_today.append(job)`
NewJobsToday(today, job, ret) ==
    IF ret = "True" THEN Append(today, job) ELSE today

\* One iteration of `for job in all_jobs`: insert_job, and the append to
\* new_jobs_today when it returned True.  An exception leaving insert_job
\* leaves scrape_all_portals too and is caught in run_daily_scrape, which logs
\* it and returns.
InsertJob ==
    /\ pc = "persist"
    /\ idx < Len(all_jobs)
    /\ \E fault \in Faults :
        LET job == all_jobs[idx + 1]
            r   == insert_job(rows, job, fault)
        IN  /\ rows' = r.rows
            /\ idx' = idx + 1
            /\ calls' = Logged(calls, [job |-> job, fault |-> fault, ret |-> r.ret])
            /\ new_jobs_today' = NewJobsToday(new_jobs_today, job, r.ret)
            /\ accepted' = IF r.ret = "True" THEN Append(accepted, job) ELSE accepted
            /\ pc' = IF r.ret = "raised" THEN "idle" ELSE pc
            /\ outcome' = IF r.ret = "raised" THEN "error" ELSE outcome
    /\ UNCHANGED <<cycle, future, fetched, collected, all_jobs, setup, report,
                   pureVars>>

\* `return all_jobs`
ReturnAllJobs ==
    /\ pc = "persist"
    /\ idx = Len(all_jobs)
    /\ pc' = "analysis"
    /\ UNCHANGED <<cycle, future, fetched, collected, all_jobs, idx, rows,
                   new_jobs_today, calls, outcome, setup, report, accepted,
                   pureVars>>

\* What get_salary_analysis can meet: nothing, an error of the query (caught:
\* it returns {}), or an error of self.connection.cursor(), which is called
\* before the try block and so leaves get_salary_analysis.
AnalysisFaults == {"none", "execute", "cursor"}

\* salary_analysis = self.db.get_salary_analysis(); an exception leaving it
\* is caught by run_daily_scrape's `except Exception`, which logs it: the
\* reset of new_jobs_today, the last statement of the try block, is not
\* reached.
GetSalaryAnalysis ==
    /\ pc = "analysis"
    /\ \E fault \in AnalysisFaults :
        /\ pc' = IF fault = "cursor" THEN "idle" ELSE "notify"
        /\ outcome' = IF fault = "cursor" THEN "error" ELSE outcome
    /\ UNCHANGED <<cycle, future, fetched, collected, all_jobs, idx, rows,
                   new_jobs_today, calls, setup, report, accepted, pureVars>>

\* How an SMTP session can go.
SmtpResults == {"ok", "error"}

\* A mutant: an SMTP error is not caught.
send_daily_report_raise(credentials, smtp) ==
    IF ~credentials THEN "skipped"
    ELSE IF smtp = "ok" THEN "sent" ELSE "raised"

\* EmailNotifier.send_daily_report: without credentials it warns and
\* returns; an exception of building or sending the message is caught and
\* logged.
send_daily_report(credentials, smtp) ==
    IF ~credentials THEN "skipped"
    ELSE IF smtp = "ok" THEN "sent" ELSE "failed"

\* The rest of run_daily_scrape's try block: the report, sent if
\* new_jobs_today is not empty, and the reset of new_jobs_today.  An
\* exception leaving send_daily_report would be caught by `except Exception`,
\* which logs it and leaves new_jobs_today as it is.
SendAndReset ==
    /\ pc = "notify"
    /\ pc' = "idle"
    /\ \E smtp \in SmtpResults :
        LET status == IF new_jobs_today # <<>>
                      THEN send_daily_report(setup.credentials, smtp)
                      ELSE "none"
        IN  /\ report' = [status |-> status,
                          new_jobs |-> IF status = "none" THEN <<>> ELSE new_jobs_today]
            /\ new_jobs_today' = IF status = "raised" THEN new_jobs_today ELSE <<>>
            /\ outcome' = IF status = "raised" THEN "error" ELSE "ok"
    /\ UNCHANGED <<cycle, future, fetched, collected, all_jobs, idx, rows, calls,
                   setup, accepted, pureVars>>

Next ==
    \/ Construct
    \/ RunDailyScrape
    \/ \E s \in Scrapers : GetPageContent(s)
    \/ \E s \in Scrapers : ExtractPage(s)
    \/ \E s \in Scrapers : Delay(s)
    \/ \E s \in Scrapers : TaskRaise(s)
    \/ \E s \in Scrapers : Collect(s)
    \/ ExitPool
    \/ InsertJob
    \/ ReturnAllJobs
    \/ GetSalaryAnalysis
    \/ SendAndReset

Spec == Init /\ [][Next]_vars

\* main's one call of run_daily_scrape.
RunOnce == cycle = 0 /\ RunDailyScrape

\* main's finally block, after run_daily_scrape: scraper.close().
Close ==
    /\ pc = "idle"
    /\ cycle = 1
    /\ pc' = "closed"
    /\ UNCHANGED <<cycle, future, fetched, collected, all_jobs, idx, rows,
                   new_jobs_today, calls, outcome, setup, report, accepted,
                   pureVars>>

NextMain ==
    \/ Construct
    \/ RunOnce
    \/ \E s \in Scrapers : GetPageContent(s)
    \/ \E s \in Scrapers : ExtractPage(s)
    \/ \E s \in Scrapers : Delay(s)
    \/ \E s \in Scrapers : TaskRaise(s)
    \/ \E s \in Scrapers : Collect(s)
    \/ ExitPool
    \/ InsertJob
    \/ ReturnAllJobs
    \/ GetSalaryAnalysis
    \/ SendAndReset
    \/ Close

\* main as it is written (one cycle, schedule_scraping commented out), when
\* every call that is under way returns or raises: a page fetch
\* (session.get has timeout=10, driver.get is taken to return), a sleep, a
\* storage call, the SMTP session.
SpecMain == Init /\ [][NextMain]_vars /\ WF_vars(NextMain)

----------------------------------------------------------------------------
(* generate_hash_id applied to arbitrary job_data *)

\* The identity fields and the url of the job_data dicts hashed.
HashTitles == StrUpTo(MaxLen)
HashLocations == {<<>>, <<"a">>}
HashUrls == {<<>>, <<"a">>}

\* One call of generate_hash_id on some scraper instance; two calls are
\* recorded, which is what a comparison of results needs.
HashCall ==
    /\ Len(hcalls) < 2
    /\ \E self \in Scrapers, t \in HashTitles, c \in HashTitles,
          l \in HashLocations, u \in HashUrls :
        LET job_data == [title |-> t, company |-> c, location |-> l, url |-> u]
        IN  hcalls' = Append(hcalls, [self |-> self, job_data |-> job_data,
                                      hash_id |-> generate_hash_id(self, job_data)])
    /\ UNCHANGED <<pipeVars, probe>>

SpecHash == Init /\ [][HashCall]_vars

----------------------------------------------------------------------------
(* clean_text applied to arbitrary text *)

\* The characters of the texts: two letters and two kinds of whitespace.
TextChars == {"a", "b", " ", "\t"}

RECURSIVE TextUpTo(_)
TextUpTo(n) ==
    IF n = 0 THEN {<<>>}
    ELSE LET S == TextUpTo(n - 1)
         IN  S \cup {Append(s, c) : s \in {t \in S : Len(t) = n - 1}, c \in TextChars}

\* The arguments clean_text is called with: None or a str.
TextArgs == {<<>>} \cup {<<s>> : s \in TextUpTo(MaxText)}

\* A call of clean_text.
CleanText ==
    /\ probe = <<>>
    /\ \E arg \in TextArgs :
        probe' = <<[fn |-> "clean_text", arg |-> arg, out |-> CleanTextOf(arg)]>>
    /\ UNCHANGED <<pipeVars, hcalls>>

\* clean_text called again, on what the first call returned.
CleanTextAgain ==
    /\ Len(probe) = 1
    /\ probe[1].fn = "clean_text"
    /\ probe' = Append(probe, [fn |-> "clean_text", arg |-> <<probe[1].out>>,
                               out |-> CleanTextOf(<<probe[1].out>>)])
    /\ UNCHANGED <<pipeVars, hcalls>>

SpecText == Init /\ [][CleanText \/ CleanTextAgain]_vars

----------------------------------------------------------------------------
(* parse_salary *)

IsDigit(c) == c \in {"0", "1", "2", "3", "4", "5", "6", "7", "8", "9"}

\* The letters of the words parse_salary looks for, and str.lower() on them.
UpperCase == <<"A", "B", "D", "E", "G", "I", "K", "L", "N", "O", "T">>
LowerCase == <<"a", "b", "d", "e", "g", "i", "k", "l", "n", "o", "t">>

LowerChar(c) ==
    IF \E i \in 1..Len(UpperCase) : UpperCase[i] = c
    THEN LowerCase[CHOOSE i \in 1..Len(UpperCase) : UpperCase[i] = c]
    ELSE c

\* str.lower()
Lower(s) == [i \in 1..Len(s) |-> LowerChar(s[i])]

\* The patterns are matched from a set P of positions of s and give the set
\* of positions a match can end before; re.IGNORECASE is in force.
Positions(s) == 1..(Len(s) + 1)

\* a literal word w (given in lower case)
Lit(s, w, P) ==
    {p + Len(w) : p \in {q \in P : /\ q + Len(w) - 1 <= Len(s)
                                   /\ Lower(SubSeq(s, q, q + Len(w) - 1)) = w}}

\* \d+
Digits(s, P) ==
    {q \in Positions(s) : \E p \in P : q > p /\ \A i \in p..(q - 1) : IsDigit(s[i])}

\* (?:,\d+)*
RECURSIVE CommaGroups(_, _)
CommaGroups(s, P) ==
    LET Q == P \cup Digits(s, Lit(s, <<",">>, P))
    IN  IF Q = P THEN P ELSE CommaGroups(s, Q)

\* (\d+(?:,\d+)*)
Amount(s, P) == CommaGroups(s, Digits(s, P))

\* \s*
Spaces(s, P) ==
    {q \in Positions(s) : \E p \in P : q >= p /\ \A i \in p..(q - 1) : IsSpace(s[i])}

\* (\d+(?:,\d+)*)\s*(?:to|-)?\s*(\d+(?:,\d+)*)?
AmountRange(s, P) ==
    LET a == Spaces(s, Amount(s, P))
        b == Spaces(s, a \cup Lit(s, <<"t", "o">>, a) \cup Lit(s, <<"-">>, a))
    IN  b \cup Amount(s, b)

\* (?:BDT|Taka|TK)
Currency(s, P) ==
    Lit(s, <<"b", "d", "t">>, P) \cup Lit(s, <<"t", "a", "k", "a">>, P)
        \cup Lit(s, <<"t", "k">>, P)

\* re.search(patterns[i], s, re.IGNORECASE) finds a match
Search(i, s) ==
    CASE i = 1 -> Currency(s, Spaces(s, AmountRange(s, Positions(s)))) # {}
      [] i = 2 -> AmountRange(s, Spaces(s, Lit(s, <<"b", "d", "t">>, Positions(s)))) # {}
      [] i = 3 -> AmountRange(s, Positions(s)) # {}

Negotiable == <<"N", "e", "g", "o", "t", "i", "a", "b", "l", "e">>

\* A mutant: the text is compared with 'negotiable' as it is written.
parse_salary_cased(salary_text) ==
    IF salary_text = <<>> \/ salary_text[1] = <<>> THEN <<>>
    ELSE LET text == clean_text(salary_text[1])
         IN  IF \E i \in 1..3 : Search(i, text) THEN <<text>>
             ELSE IF text # Lower(Negotiable) THEN <<text>> ELSE <<Negotiable>>

\* WebScraper.parse_salary; salary_text and the result are Optional[str].
parse_salary(salary_text) ==
    IF salary_text = <<>> \/ salary_text[1] = <<>> THEN <<>>
    ELSE LET text == clean_text(salary_text[1])
         IN  IF \E i \in 1..3 : Search(i, text) THEN <<text>>
             ELSE IF Lower(text) # Lower(Negotiable) THEN <<text>> ELSE <<Negotiable>>

\* The salary texts: a core, with whitespace before and after it.
SalaryCores ==
    {<<"N", "e", "g", "o", "t", "i", "a", "b", "l", "e">>,
     <<"n", "e", "g", "o", "t", "i", "a", "b", "l", "e">>,
     <<"N", "E", "G", "O", "T", "I", "A", "B", "L", "E">>,
     <<"n", "e", "g", "o", " ", "t", "i", "a", "b", "l", "e">>,
     <<"N", "e", "g", "o", "t", "i", "a", "b", "l", "e", " ", "5">>,
     <<"B", "D", "T", " ", "3", "0", ",", "0", "0", "0">>,
     <<"3", "0", ",", "0", "0", "0", " ", "-", " ", "4", "0", ",", "0", "0", "0", " ", "T", "K">>,
     <<"3", " ", "t", "o", " ", "4", " ", "T", "a", "k", "a">>,
     <<"3", "0", "0", "0", "0">>,
     <<"N", "/", "A">>,
     <<"a">>,
     <<>>}

SalaryPads == {<<>>, <<" ">>, <<"\t">>, <<" ", "\t">>}

SalaryArgs ==
    {<<>>} \cup {<<a \o c \o b>> : a \in SalaryPads, c \in SalaryCores, b \in SalaryPads}

\* A call of parse_salary.
ParseSalary ==
    /\ probe = <<>>
    /\ \E arg \in SalaryArgs :
        probe' = <<[fn |-> "parse_salary", arg |-> arg, out |-> parse_salary(arg)]>>
    /\ UNCHANGED <<pipeVars, hcalls>>

SpecSalary == Init /\ [][ParseSalary]_vars

----------------------------------------------------------------------------
(* get_salary_analysis: the query, as each engine evaluates it *)

\* rows of job_listings get_salary_analysis is run on in SpecAnalysis
MaxRows == 3

\* LIMIT 10
TopN == 10

DbTypes == {"mysql", "postgresql"}

DigitChars == <<"0", "1", "2", "3", "4", "5", "6", "7", "8", "9">>

DigitValue(c) == (CHOOSE i \in 1..Len(DigitChars) : DigitChars[i] = c) - 1

\* REGEXP_REPLACE(salary, '[^0-9]', '') (with 'g' on PostgreSQL)
StripNonDigits(s) == SelectSeq(s, IsDigit)

RECURSIVE Decimal(_)
Decimal(d) ==
    IF d = <<>> THEN 0
    ELSE Decimal(SubSeq(d, 1, Len(d) - 1)) * 10 + DigitValue(d[Len(d)])

\* CAST(d AS UNSIGNED) on MySQL, CAST(d AS INTEGER) on PostgreSQL, of a string
\* of digits: MySQL reads '' as 0 (with a warning), PostgreSQL rejects it
\* (invalid input syntax for type integer) and the statement fails.
CastFails(db_type, d) == db_type = "postgresql" /\ d = <<>>

\* WHERE salary IS NOT NULL AND salary != ''
Selected(table) == {i \in 1..Len(table) : table[i].salary # <<>> /\ table[i].salary[1] # <<>>}

\* GROUP BY location: the row numbers of one group
Group(table, location) == {i \in Selected(table) : table[i].location = location}

RECURSIVE SumOver(_, _)
SumOver(table, I) ==
    IF I = {} THEN 0
    ELSE LET i == CHOOSE x \in I : TRUE
         IN  Decimal(StripNonDigits(table[i].salary[1])) + SumOver(table, I \ {i})

\* One row of the result: location, COUNT(*), AVG(...).  The average is kept
\* as the fraction sum / count.
AnalysisRow(table, location) ==
    [location   |-> location,
     job_count  |-> Cardinality(Group(table, location)),
     avg_salary |-> <<SumOver(table, Group(table, location)),
                      Cardinality(Group(table, location))>>]

\* ORDER BY job_count DESC: every order of the rows R the engine may give
\* (rows of equal job_count come in any order).
RECURSIVE OrderByCountDesc(_)
OrderByCountDesc(R) ==
    IF R = {} THEN {<<>>}
    ELSE UNION {{<<r>> \o rest : rest \in OrderByCountDesc(R \ {r})} :
                    r \in {x \in R : \A y \in R : y.job_count <= x.job_count}}

\* LIMIT n
Limit(rows_, n) == SubSeq(rows_, 1, IF Len(rows_) < n THEN Len(rows_) ELSE n)

\* cursor.fetchall() of the query: the results the engine may give.
QueryResults(table) ==
    LET locations == {table[i].location : i \in Selected(table)}
    IN  {Limit(o, TopN) : o \in OrderByCountDesc({AnalysisRow(table, l) : l \in locations})}

\* DatabaseManager.get_salary_analysis on a table: the dicts it may return,
\* {'location_analysis': rows} as <<rows>> and {} as <<>>.
get_salary_analysis(db_type, table) ==
    IF \E i \in Selected(table) : CastFails(db_type, StripNonDigits(table[i].salary[1]))
    THEN {<<>>}
    ELSE {<<r>> : r \in QueryResults(table)}

Dhaka == <<"D", "h", "a", "k", "a">>
Chittagong == <<"C", "h", "i", "t", "t", "a", "g", "o", "n", "g">>

\* The (location, salary) of the rows the tables are made of; a NULL salary
\* is <<>>.  'N/A' is the salary BdjobsScraper gives every job.
AnalysisRows ==
    {[location |-> l, salary |-> sal] :
        l \in {Dhaka, Chittagong},
        sal \in {<<>>, << <<>> >>, << <<"2", "0", "0", "0", "0">> >>, << <<"3", "0", "0", "0", "0">> >>, << <<"5", "0", "0", "0", "0">> >>,
                 << NA >>, << <<"3", "0", "0", " ", "-", " ", "4", "0", "0">> >>}}

RECURSIVE TablesUpTo(_)
TablesUpTo(n) ==
    IF n = 0 THEN {<<>>}
    ELSE LET S == TablesUpTo(n - 1)
         IN  S \cup {Append(t, r) : t \in {x \in S : Len(x) = n - 1}, r \in AnalysisRows}

\* A table with TopN + 1 locations, the k-th of them on k rows.
ManyLocations ==
    LET loc(k) == [j \in 1..k |-> "a"]
        at(i)  == CHOOSE k \in 1..(TopN + 1) : (k * (k - 1)) \div 2 < i /\ i <= (k * (k + 1)) \div 2
    IN  [i \in 1..(((TopN + 1) * (TopN + 2)) \div 2) |->
            [location |-> loc(at(i)), salary |-> << <<"3", "0", "0", "0", "0">> >>]]

AnalysisTables == TablesUpTo(MaxRows) \cup {ManyLocations}

\* A call of get_salary_analysis.
GetSalaryAnalysisCall ==
    /\ probe = <<>>
    /\ \E db_type \in DbTypes, table \in AnalysisTables :
       \E result \in get_salary_analysis(db_type, table) :
        probe' = <<[fn |-> "get_salary_analysis", db_type |-> db_type,
                    table |-> table, out |-> result]>>
    /\ UNCHANGED <<pipeVars, hcalls>>

SpecAnalysis == Init /\ [][GetSalaryAnalysisCall]_vars

----------------------------------------------------------------------------
(* create_email_body *)

\* longest new_jobs list create_email_body is given in SpecReport
MaxNewJobs == 12

\* longest location_analysis list create_email_body is given in SpecReport
MaxLocations == 7

\* new_jobs[:10]
SampleRows == 10

\* salary_analysis.get('location_analysis', [])[:5]
TopLocations == 5

\* s[:n]
Slice(s, n) == SubSeq(s, 1, IF Len(s) < n THEN Len(s) ELSE n)

\* salary_analysis.get('location_analysis', []); the dict {} is <<>>.
LocationAnalysis(salary_analysis) ==
    IF salary_analysis = <<>> THEN <<>> ELSE salary_analysis[1]

\* A mutant: every new job gets a row.
create_email_body_all(new_jobs, salary_analysis) ==
    [new_jobs_found |-> Len(new_jobs),
     listings  |-> [i \in 1..Len(new_jobs) |->
                        [title |-> new_jobs[i].title, company |-> new_jobs[i].company,
                         location |-> new_jobs[i].location, source |-> new_jobs[i].source]],
     locations |-> LET top == Slice(LocationAnalysis(salary_analysis), TopLocations)
                   IN  [i \in 1..Len(top) |->
                            [location |-> top[i].location, job_count |-> top[i].job_count]]]

\* EmailNotifier.create_email_body: what the html holds, in the order it
\* holds it: the number after "New Jobs Found", the rows of the table and the
\* items of the list of locations.
create_email_body(new_jobs, salary_analysis) ==
    [new_jobs_found |-> Len(new_jobs),
     listings  |-> LET first == Slice(new_jobs, SampleRows)
                   IN  [i \in 1..Len(first) |->
                            [title |-> first[i].title, company |-> first[i].company,
                             location |-> first[i].location, source |-> first[i].source]],
     locations |-> LET top == Slice(LocationAnalysis(salary_analysis), TopLocations)
                   IN  [i \in 1..Len(top) |->
                            [location |-> top[i].location, job_count |-> top[i].job_count]]]

\* The text of k letters.
Letters(k) == [j \in 1..k |-> "a"]

\* The k-th of sixteen titles of two letters.
Title(k) ==
    LET letters == <<"a", "b", "N", "A">>
    IN  <<letters[((k - 1) \div 4) + 1], letters[((k - 1) % 4) + 1]>>

\* A list of n new jobs, the k-th with the k-th title.
NewJobsList(n) ==
    [k \in 1..n |-> [title |-> Title(k), company |-> <<"b">>, location |-> <<"a">>,
                     salary |-> NA, description |-> NA, url |-> Title(k),
                     source |-> "Bdjobs",
                     hash_id |-> MD5(Title(k) \o <<"b">> \o <<"a">>)]]

\* A location_analysis of m entries, the k-th for the location of k letters.
LocationList(m) ==
    [k \in 1..m |-> [location |-> Letters(k), job_count |-> m + 1 - k,
                     avg_salary |-> <<0, m + 1 - k>>]]

\* The salary_analysis dicts: {} and those with a location_analysis.
SalaryAnalyses == {<<>>} \cup {<<LocationList(m)>> : m \in 0..MaxLocations}

\* A call of create_email_body.
CreateEmailBody ==
    /\ probe = <<>>
    /\ \E n \in 0..MaxNewJobs, salary_analysis \in SalaryAnalyses :
        probe' = <<[fn |-> "create_email_body", new_jobs |-> NewJobsList(n),
                    salary_analysis |-> salary_analysis,
                    out |-> create_email_body(NewJobsList(n), salary_analysis)]>>
    /\ UNCHANGED <<pipeVars, hcalls>>

SpecReport == Init /\ [][CreateEmailBody]_vars

----------------------------------------------------------------------------
(* Helpers of the properties *)

IsPrefix(s, t) == Len(s) <= Len(t) /\ SubSeq(t, 1, Len(s)) = s

HashStored(table, job) == \E i \in 1..Len(table) : table[i].hash_id = job.hash_id

RowsWithHash(table, job) == {i \in 1..Len(table) : table[i].hash_id = job.hash_id}

RECURSIVE BagOfSeq(_)
BagOfSeq(s) == IF s = <<>> THEN EmptyBag ELSE SetToBag({s[1]}) (+) BagOfSeq(Tail(s))

\* The records of the lists returned by the scrapers of S that did not raise.
RECURSIVE ReturnedBag(_)
ReturnedBag(S) ==
    IF S = {} THEN EmptyBag
    ELSE LET s == CHOOSE x \in S : TRUE
         IN  (IF future[s].state = "returned" THEN BagOfSeq(future[s].jobs)
              ELSE EmptyBag) (+) ReturnedBag(S \ {s})

\* The step is an insert_job call of the persistence loop.
IsInsertCall == pc = "persist" /\ idx' = idx + 1

LastCall(log) == log[Len(log)]

SameTriple(a, b) ==
    a.title = b.title /\ a.company = b.company /\ a.location = b.location

----------------------------------------------------------------------------
(* C1..C10 *)

\* C1 (idempotent ingestion): an insert_job call that meets no storage error
\* returns True exactly when no row with the record's hash_id was stored
\* before it, and leaves exactly one row with that hash_id; when the call
\* before it was for the same record and met no storage error either, it
\* returns False and leaves the rows as they were.
C1_IdempotentInsert ==
    [][ (IsInsertCall /\ LastCall(calls').fault = "none") =>
            LET job == all_jobs[idx + 1]
                c   == LastCall(calls')
            IN  /\ (c.ret = "True") <=> ~HashStored(rows, job)
                /\ Cardinality(RowsWithHash(rows', job)) = 1
                /\ (/\ calls # <<>>
                    /\ LastCall(calls).job = job
                    /\ LastCall(calls).fault = "none")
                   => (c.ret = "False" /\ rows' = rows) ]_vars

\* C1 witness: the same record passed twice in a row, stored by the first call
\* and refused by the second.
C1_Witness ==
    /\ Len(calls) = 2
    /\ calls[1].job = calls[2].job
    /\ calls[1].fault = "none" /\ calls[2].fault = "none"
    /\ calls[1].ret = "True" /\ calls[2].ret = "False"
    /\ Cardinality(RowsWithHash(rows, calls[1].job)) = 1

\* C2 (uniqueness): no two rows of job_listings have the same hash_id, in any
\* state, whatever insert_job calls succeeded, were refused or failed.
C2_UniqueHashId ==
    \A i, j \in 1..Len(rows) : rows[i].hash_id = rows[j].hash_id => i = j

\* C2 witness: two rows are stored and a call for a stored hash_id was refused.
C2_Witness ==
    /\ Len(rows) = 2
    /\ \E k \in 1..Len(calls) : calls[k].fault = "none" /\ calls[k].ret = "False"

\* C3 as claimed: when the persistence loop has passed two candidates with the
\* same hash_id and different other fields to insert_job, exactly one row
\* with that hash_id is stored and it is the candidate passed first.
C3_FirstPassedWins ==
    (pc = "analysis") =>
        \A i, j \in 1..Len(all_jobs) :
            (/\ i < j
             /\ all_jobs[i].hash_id = all_jobs[j].hash_id
             /\ all_jobs[i] # all_jobs[j]
             /\ \A k \in 1..(i - 1) : all_jobs[k].hash_id # all_jobs[i].hash_id)
            => /\ Cardinality(RowsWithHash(rows, all_jobs[i])) = 1
               /\ \E r \in 1..Len(rows) : rows[r] = all_jobs[i]

\* C3 as amended (first stored wins): the rows only ever grow at the end, by
\* one row, in an insert_job call; the call that returns True appends its own
\* candidate, whose hash_id was not stored; every other call, a call for a
\* stored hash_id among them, leaves every row as it was.
C3_FirstStoredWins ==
    [][ /\ IsPrefix(rows, rows')
        /\ (rows' # rows) => IsInsertCall
        /\ IsInsertCall =>
            LET job == all_jobs[idx + 1]
                c   == LastCall(calls')
            IN  /\ HashStored(rows, job) => (rows' = rows /\ c.ret # "True")
                /\ (c.ret = "True") => (rows' = Append(rows, job))
                /\ (c.ret # "True") => (rows' = rows) ]_vars

\* C3 witness: two candidates with the same triple and different other fields
\* were passed to insert_job; the first is the row stored, the second refused.
C3_Witness ==
    /\ Len(calls) = 2
    /\ SameTriple(calls[1].job, calls[2].job)
    /\ calls[1].job # calls[2].job
    /\ calls[1].ret = "True" /\ calls[2].ret = "False"
    /\ \E r \in 1..Len(rows) : rows[r] = calls[1].job
    /\ Cardinality(RowsWithHash(rows, calls[2].job)) = 1

\* C4 (fault isolation): once a scrape has left the pool, every future has
\* been consumed, those that raised included, none still runs, and all_jobs
\* holds, as a multiset, the records of the lists of the scrapers that
\* returned.
C4_FaultIsolation ==
    (cycle > 0 /\ pc # "pool") =>
        /\ collected = Scrapers
        /\ \A s \in Scrapers : future[s].state \in {"returned", "raised"}
        /\ BagOfSeq(all_jobs) = ReturnedBag(Scrapers)

\* C4 witness: one scraper raised, the other returned records, and the
\* persistence loop has them.
C4_Witness ==
    /\ pc = "persist"
    /\ \E s \in Scrapers : future[s].state = "raised"
    /\ \E s \in Scrapers : future[s].state = "returned" /\ future[s].jobs # <<>>
    /\ all_jobs # <<>>

\* C5 as claimed: an insert_job call that met a storage error, wherever it
\* struck, returned False to its caller.
C5_ErrorsReturnFalse ==
    \A k \in 1..Len(calls) : calls[k].fault # "none" => calls[k].ret = "False"

\* C6 (fetch/persist barrier): while the persistence loop runs, and whenever an
\* insert_job call of this scrape has been made, no extractor task is running.
C6_Barrier ==
    (pc = "persist" \/ idx > 0) =>
        \A s \in Scrapers : future[s].state \in {"returned", "raised"}

\* C6 witness: a record has been passed to insert_job after both tasks ended.
C6_Witness ==
    /\ pc = "persist"
    /\ idx > 0
    /\ \A s \in Scrapers : future[s].state = "returned"

\* The records of a page's candidates, in page order, without the candidates
\* whose extraction yields nothing.
PageCandidates(self, elems) ==
    LET good == SelectSeq(elems, LAMBDA el : extract_job_data(self, el) # <<>>)
    IN  [i \in 1..Len(good) |-> extract_job_data(self, good[i])[1]]

\* C7 (page-level isolation): a scrape_jobs that has returned attempted every
\* page 1..max_pages, failed fetches or not, and its list contains the
\* candidates of every page whose fetch succeeded.
C7_PageIsolation ==
    \A s \in Scrapers :
        (future[s].state = "returned" /\ s \notin collected) =>
            /\ Len(fetched[s]) = MaxPages
            /\ \A p \in 1..Len(fetched[s]) :
                fetched[s][p].ok =>
                    BagOfSeq(PageCandidates(s, fetched[s][p].elems))
                        \sqsubseteq BagOfSeq(future[s].jobs)

\* C7 witness: the fetch of page 1 failed, a later page was fetched, and its
\* candidates were returned.
C7_Witness ==
    \E s \in Scrapers :
        /\ future[s].state = "returned"
        /\ Len(fetched[s]) = MaxPages
        /\ ~fetched[s][1].ok
        /\ fetched[s][MaxPages].ok
        /\ future[s].jobs # <<>>

\* The pages of a task whose candidates have been gone through.
RECURSIVE CandidatesUpTo(_, _)
CandidatesUpTo(self, n) ==
    IF n = 0 THEN <<>>
    ELSE CandidatesUpTo(self, n - 1) \o
         (IF fetched[self][n].ok THEN PageCandidates(self, fetched[self][n].elems)
          ELSE <<>>)

\* C8 (candidate-level isolation): at every point of scrape_jobs, and when it
\* has returned, jobs is exactly the candidates of the pages gone through so
\* far, in page order, only those whose extraction yields nothing left out.
C8_CandidateIsolation ==
    \A s \in Scrapers :
        (future[s].state \in {"running", "returned"} /\ s \notin collected) =>
            future[s].jobs =
                CandidatesUpTo(s, IF future[s].step = "extract"
                                  THEN Len(fetched[s]) - 1
                                  ELSE Len(fetched[s]))

\* C8 witness: a returned list holds the candidate before and the candidate
\* after one whose extraction failed, and a candidate of a later page.
C8_Witness ==
    \E s \in Scrapers :
        /\ future[s].state = "returned"
        /\ s \notin collected
        /\ fetched[s][1].ok
        /\ fetched[s][1].elems = <<E1, EBad, E2>>
        /\ fetched[s][2].ok
        /\ Len(future[s].jobs) >= 3
        /\ future[s].jobs[1] = BdjobsJobData(s, E1)
        /\ future[s].jobs[2] = BdjobsJobData(s, E2)

\* C9 (fingerprint determinism): two generate_hash_id calls on job_data with
\* equal title, company and location return equal hash_id, whatever the other
\* fields, the instance, and the order of the calls.
C9_Deterministic ==
    \A i, j \in 1..Len(hcalls) :
        SameTriple(hcalls[i].job_data, hcalls[j].job_data)
            => hcalls[i].hash_id = hcalls[j].hash_id

\* C9 witness: two calls on different instances, with the same triple and
\* different urls, returned the same hash_id.
C9_Witness ==
    /\ Len(hcalls) = 2
    /\ SameTriple(hcalls[1].job_data, hcalls[2].job_data)
    /\ hcalls[1].job_data.title # <<>>
    /\ hcalls[1].job_data.url # hcalls[2].job_data.url
    /\ hcalls[1].self # hcalls[2].self
    /\ hcalls[1].hash_id = hcalls[2].hash_id

\* C10 as claimed (fingerprint distinctness): two generate_hash_id calls on
\* job_data that differ in title, company or location return different
\* hash_id.
C10_Distinct ==
    \A i, j \in 1..Len(hcalls) :
        ~SameTriple(hcalls[i].job_data, hcalls[j].job_data)
            => hcalls[i].hash_id # hcalls[j].hash_id

----------------------------------------------------------------------------
(* C11..C20 *)

\* No whitespace at either end, no two whitespace characters in a row, and no
\* whitespace character but the space.
Canonical(s) ==
    /\ s # <<>> => (~IsSpace(s[1]) /\ ~IsSpace(s[Len(s)]))
    /\ \A i \in 1..Len(s) : IsSpace(s[i]) => s[i] = " "
    /\ \A i \in 1..(Len(s) - 1) : ~(IsSpace(s[i]) /\ IsSpace(s[i + 1]))

\* C11 (normalizer idempotence and canonical form): what clean_text returns
\* has no leading or trailing whitespace, no run of two or more whitespace
\* characters and no whitespace character other than the space; clean_text of
\* that result is the result again; and clean_text of None and of "" is "".
C11_CleanTextCanonical ==
    /\ \A k \in 1..Len(probe) :
            probe[k].fn = "clean_text" =>
                /\ Canonical(probe[k].out)
                /\ (probe[k].arg = <<>> \/ probe[k].arg = << <<>> >>)
                        => probe[k].out = <<>>
    /\ (Len(probe) = 2 /\ probe[1].fn = "clean_text")
            => probe[2].out = probe[1].out

\* C11 witness: a text with a space and a tab between two letters was cleaned
\* to the letters with one space between them, and that was cleaned again.
C11_Witness ==
    /\ Len(probe) = 2
    /\ probe[1].fn = "clean_text"
    /\ probe[1].arg = << <<"a", " ", "\t", "b">> >>
    /\ probe[1].out = <<"a", " ", "b">>

\* C12 (salary parsing result): parse_salary of None and of "" is None; of a
\* text whose cleaned form is "negotiable" in any letter case it is
\* "Negotiable"; of every other text it is clean_text of the text, whether or
\* not one of the amount patterns matched.
C12_ParseSalaryResult ==
    \A k \in 1..Len(probe) :
        probe[k].fn = "parse_salary" =>
            LET arg == probe[k].arg
                out == probe[k].out
            IN  IF arg = <<>> \/ arg = << <<>> >> THEN out = <<>>
                ELSE IF Lower(clean_text(arg[1])) = Lower(Negotiable)
                     THEN out = <<Negotiable>>
                     ELSE out = <<clean_text(arg[1])>>

\* C12 witness: "NEGOTIABLE" between a tab and a space was parsed to
\* "Negotiable".
C12_Witness ==
    /\ Len(probe) = 1
    /\ probe[1].fn = "parse_salary"
    /\ probe[1].arg = << <<"\t">> \o <<"N", "E", "G", "O", "T", "I", "A", "B", "L", "E">> \o <<" ">> >>
    /\ probe[1].out = <<Negotiable>>

\* The rows of the table that have a non-null, non-empty salary and the
\* given location.
RowsAt(table, location) ==
    {i \in 1..Len(table) : /\ table[i].location = location
                           /\ table[i].salary # <<>>
                           /\ table[i].salary[1] # <<>>}

\* The sum of the integers the digits of the salaries of the rows I spell
\* (a salary without a digit counted as 0).
RECURSIVE DigitSum(_, _)
DigitSum(table, I) ==
    IF I = {} THEN 0
    ELSE LET i == CHOOSE x \in I : TRUE
         IN  Decimal(SelectSeq(table[i].salary[1], IsDigit)) + DigitSum(table, I \ {i})

\* C13 (aggregation), as claimed: get_salary_analysis returns a list with one
\* entry per distinct location among the rows with a non-null, non-empty
\* salary (the 10 of greatest job_count when there are more), each with
\* job_count the number of such rows at the location and avg_salary the mean
\* of the integers left when the non-digits of each salary are deleted, in
\* descending order of job_count.
C13_Aggregation ==
    \A k \in 1..Len(probe) :
        probe[k].fn = "get_salary_analysis" =>
            LET table == probe[k].table
                locations == {table[i].location :
                                i \in {j \in 1..Len(table) : /\ table[j].salary # <<>>
                                                             /\ table[j].salary[1] # <<>>}}
                out == probe[k].out
            IN  /\ out # <<>>
                /\ Len(out[1]) = (IF Cardinality(locations) < 10
                                  THEN Cardinality(locations) ELSE 10)
                /\ \A i \in 1..Len(out[1]) :
                    /\ out[1][i].location \in locations
                    /\ out[1][i].job_count = Cardinality(RowsAt(table, out[1][i].location))
                    /\ out[1][i].avg_salary[1] * out[1][i].job_count
                           = DigitSum(table, RowsAt(table, out[1][i].location))
                                * out[1][i].avg_salary[2]
                    /\ \A j \in 1..Len(out[1]) :
                        /\ (i # j) => out[1][i].location # out[1][j].location
                        /\ (i < j) => out[1][i].job_count >= out[1][j].job_count
                    /\ \A l \in locations :
                        (\A j \in 1..Len(out[1]) : out[1][j].location # l)
                            => Cardinality(RowsAt(table, l)) <= out[1][i].job_count

Min(a, b) == IF a < b THEN a ELSE b

\* C14 (notification payload bounds): the body reports the full length of
\* the new-jobs list as the number of new jobs, holds the first min(10, n)
\* new jobs in list order as rows and the first min(5, m) location entries in
\* aggregation order, and never more than 10 rows or 5 locations.
C14_PayloadBounds ==
    \A k \in 1..Len(probe) :
        probe[k].fn = "create_email_body" =>
            LET new_jobs == probe[k].new_jobs
                entries == IF probe[k].salary_analysis = <<>> THEN <<>>
                           ELSE probe[k].salary_analysis[1]
                out == probe[k].out
            IN  /\ out.new_jobs_found = Len(new_jobs)
                /\ Len(out.listings) = Min(10, Len(new_jobs))
                /\ Len(out.locations) = Min(5, Len(entries))
                /\ Len(out.listings) <= 10
                /\ Len(out.locations) <= 5
                /\ \A i \in 1..Len(out.listings) :
                    /\ out.listings[i].title = new_jobs[i].title
                    /\ out.listings[i].company = new_jobs[i].company
                    /\ out.listings[i].location = new_jobs[i].location
                    /\ out.listings[i].source = new_jobs[i].source
                /\ \A i \in 1..Len(out.locations) :
                    /\ out.locations[i].location = entries[i].location
                    /\ out.locations[i].job_count = entries[i].job_count

\* C14 witness: a body made from more than 10 new jobs and more than 5
\* location entries.
C14_Witness ==
    /\ Len(probe) = 1
    /\ probe[1].fn = "create_email_body"
    /\ Len(probe[1].new_jobs) > 10
    /\ probe[1].salary_analysis # <<>>
    /\ Len(probe[1].salary_analysis[1]) > 5
    /\ probe[1].out.new_jobs_found = Len(probe[1].new_jobs)
    /\ Len(probe[1].out.listings) = 10
    /\ Len(probe[1].out.locations) = 5

\* C15 (a notification failure does not undo the cycle): the step of
\* run_daily_scrape that calls send_daily_report ends with the report sent,
\* failed or skipped, never with an exception; when the report failed (SMTP
\* error) or was skipped (no credentials) the rows are left as they were, every
\* new job of the cycle is still stored, no scrape is started again, and
\* run_daily_scrape ends normally.
C15_NotifyFailureHarmless ==
    [][ (pc = "notify" /\ new_jobs_today # <<>>) =>
            /\ report'.status \in {"skipped", "sent", "failed"}
            /\ report'.status \in {"skipped", "failed"} =>
                /\ rows' = rows
                /\ \A i \in 1..Len(new_jobs_today) : HashStored(rows', new_jobs_today[i])
                /\ cycle' = cycle
                /\ future' = future
                /\ fetched' = fetched
                /\ idx' = idx
                /\ pc' = "idle"
                /\ outcome' = "ok" ]_vars

\* C15 witness: a cycle that stored new rows, failed to send its report and
\* ended normally.
C15_Witness ==
    /\ pc = "idle"
    /\ report.status = "failed"
    /\ report.new_jobs # <<>>
    /\ \A i \in 1..Len(report.new_jobs) : HashStored(rows, report.new_jobs[i])
    /\ outcome = "ok"

\* C16 (setup failures are fatal): once the construction of JobPortalScraper
\* has failed (database connection, table creation, or the browser setup of a
\* scraper), the run is over: no cycle is started, no scrape_jobs task and no
\* fetch exists, insert_job is never called, nothing is stored and no report
\* is sent.
C16_SetupFailureFatal ==
    setup.result \notin {"pending", "ok"} =>
        /\ pc = "terminated"
        /\ cycle = 0
        /\ \A s \in Scrapers : future[s].state = "none" /\ fetched[s] = <<>>
        /\ collected = {}
        /\ idx = 0
        /\ calls = <<>>
        /\ rows = <<>>
        /\ new_jobs_today = <<>>
        /\ report = NoReport
        /\ outcome = "none"

\* C16 witness: the browser of the second scraper could not be started, and
\* main has ended.
C16_Witness ==
    /\ setup.result = "selenium_jobscom"
    /\ pc = "terminated"

\* C17 (delay between fetches), as claimed: a task about to fetch a page after
\* its first has slept since the request of its previous fetch attempt was
\* sent, whether that attempt succeeded or failed.
C17_DelayBetweenFetches ==
    \A s \in Scrapers :
        (/\ future[s].state = "running"
         /\ future[s].step = "fetch"
         /\ Len(fetched[s]) >= 1) => future[s].slept

\* C18 (sequential pagination), as claimed: a task has at most one page in
\* hand (it fetches the next page only when the page before has been fetched
\* and its candidates extracted), and its requests are for the pages
\* 1, 2, ... in this order: the k-th request of a task names page k.
C18_SequentialPagination ==
    \A s \in Scrapers :
        /\ future[s].state = "running" =>
            /\ future[s].step = "fetch" =>
                (future[s].soup = <<>> /\ Len(fetched[s]) = future[s].page - 1)
            /\ future[s].step \in {"extract", "delay"} =>
                Len(fetched[s]) = future[s].page
        /\ \A k \in 1..Len(fetched[s]) : fetched[s][k].request = k

\* C19 (no retry): the k-th fetch attempt of a task is the one attempt for
\* page k of the loop, so a task makes at most max_pages attempts, exactly
\* max_pages when it returns, and a page whose fetch failed is not fetched
\* again; and every insert_job call of the persistence loop is for the record
\* after the one of the call before, whatever that call returned.
C19_NoRetry ==
    /\ [](\A s \in Scrapers :
            /\ Len(fetched[s]) <= MaxPages
            /\ \A k \in 1..Len(fetched[s]) : fetched[s][k].page = k
            /\ (future[s].state = "returned" /\ s \notin collected)
                    => Len(fetched[s]) = MaxPages)
    /\ [][ (/\ pc = "persist"
            /\ (calls' # calls \/ rows' # rows \/ idx' # idx
                    \/ new_jobs_today' # new_jobs_today))
           => /\ idx' = idx + 1
              /\ idx' <= Len(all_jobs)
              /\ LastCall(calls').job = all_jobs[idx'] ]_vars

\* C19 witness: a task has returned after the fetch of every one of its pages
\* failed, and each page was tried once.
C19_Witness ==
    \E s \in Scrapers :
        /\ future[s].state = "returned"
        /\ s \notin collected
        /\ Len(fetched[s]) = MaxPages
        /\ \A k \in 1..MaxPages : ~fetched[s][k].ok /\ fetched[s][k].page = k

\* C20 (the orchestrator's result is the full union): when scrape_all_portals
\* returns, every record of all_jobs has been passed to insert_job and
\* all_jobs holds, as a multiset, the records of the lists returned by the
\* scrapers that completed, duplicates and refused records included, in
\* whatever order the futures completed; and during the scrape
\* new_jobs_today gets exactly the records whose insert_job returned True,
\* in the order of all_jobs, and nothing else.
C20_FullUnion ==
    [][ /\ (pc = "persist" /\ pc' = "analysis") =>
            /\ idx = Len(all_jobs)
            /\ BagOfSeq(all_jobs') = ReturnedBag(Scrapers)
        /\ IsInsertCall =>
            new_jobs_today' = IF LastCall(calls').ret = "True"
                              THEN Append(new_jobs_today, all_jobs[idx + 1])
                              ELSE new_jobs_today
        /\ (pc \in {"pool", "persist"} /\ ~IsInsertCall) =>
            new_jobs_today' = new_jobs_today ]_vars

\* C20 witness: scrape_all_portals has returned a list with a repeated record
\* and a record whose insert_job met an error; some but not all of its
\* records are in new_jobs_today.
C20_Witness ==
    /\ pc = "analysis"
    /\ cycle = 1
    /\ \A s \in Scrapers : future[s].state = "returned"
    /\ Len(all_jobs) >= 3
    /\ \E i, j \in 1..Len(all_jobs) : i < j /\ all_jobs[i] = all_jobs[j]
    /\ \E k \in 1..Len(calls) : calls[k].ret = "False" /\ calls[k].fault # "none"
    /\ new_jobs_today # <<>>
    /\ Len(new_jobs_today) < Len(all_jobs)

----------------------------------------------------------------------------
(* C21..C23 *)

\* C21 (per-cycle report content), as claimed: new_jobs_today is empty when
\* a cycle starts, also after a cycle that ended in an error, and the list
\* handed to send_daily_report is the list of the records whose insert_job
\* returned True in the same cycle.
C21_PerCycleReport ==
    /\ (pc = "pool" /\ collected = {} /\ \A s \in Scrapers : future[s] = Started)
            => new_jobs_today = <<>>
    /\ report.status # "none" => report.new_jobs = accepted

\* C22 (cycle ordering and conditional notify), as claimed: the aggregation
\* query runs only when every record of the cycle has been passed to
\* insert_job and the call has returned; until the aggregation has returned
\* send_daily_report has not been called in the cycle; its one call is the
\* last step of the cycle, and it is made only when at least one record was
\* newly inserted in that cycle.
C22_OrderAndConditionalNotify ==
    /\ pc \in {"pool", "persist", "analysis", "notify"} => report = NoReport
    /\ pc \in {"analysis", "notify"} => idx = Len(all_jobs)
    /\ report.status # "none" => (pc = "idle" /\ outcome = "ok" /\ accepted # <<>>)

\* C23 (termination of a cycle): when every call under way ends, a cycle
\* that has started leaves the pool (no future is waited for for ever, one
\* that raised included) and run_daily_scrape completes, whatever fetches,
\* candidates, tasks and inserts failed.
C23_CycleTerminates ==
    /\ (pc = "pool") ~> (pc = "persist")
    /\ (pc = "pool") ~> (pc = "idle" /\ outcome # "none")

\* C23 witness: a cycle has completed in which a task raised, a fetch of the
\* other task failed, a candidate could not be extracted and an insert_job
\* met an error.
C23_Witness ==
    /\ pc = "idle"
    /\ outcome = "ok"
    /\ future["jobscom"].state = "raised"
    /\ future["bdjobs"].state = "returned"
    /\ Len(all_jobs) = 2
    /\ \E k \in 1..Len(calls) : calls[k].ret = "False" /\ calls[k].fault # "none"

====
